---- MODULE Spec2Model ----
(***************************************************************************)
(* A model of clyngor's Answers object (src/clyngor/answers.py) and of the *)
(* decoders exercised by src/clyngor/test/test_decoder.py.                 *)
(*                                                                         *)
(* Encoding of Python values:                                              *)
(*   raw atom          <<pred, args>>, args a sequence of values           *)
(*   tuple(args)       [scalar |-> FALSE, v |-> args]                      *)
(*   a bare value x    [scalar |-> TRUE,  v |-> <<x>>]                     *)
(*   ()                [scalar |-> FALSE, v |-> <<>>]  (the empty tuple)   *)
(*   (pred, a)         [form |-> "pair", pred |-> pred, args |-> a]        *)
(*   Atom(pred, a)     [form |-> "Atom", pred |-> pred, args |-> a]        *)
(*   a (bucket member) [form |-> "args", pred |-> "",   args |-> a]        *)
(*   frozenset(S)      [kind |-> "frozenset", elems |-> S, seq |-> <<>>]   *)
(*   tuple(s)          [kind |-> "tuple", elems |-> {}, seq |-> s]         *)
(*   a yielded value   [type |-> "frozenset" | "tuple" | "dict",           *)
(*                      top |-> container, map |-> [key |-> container]]    *)
(***************************************************************************)
EXTENDS Integers, Sequences, FiniteSets, TLC

\* ------------------------------------------------------------ bounds
\* Longest raw answer set (in atoms) fed to the transformation alone.
MaxAtoms == 3
\* Longest underlying source (in answer sets) of an Answers object.
MaxSource == 2
\* Number of generator objects iter() may create on one Answers object.
MaxTraversals == 2
\* Number of next() requests (on generators or on the object) in one run.
MaxAdvances == 3
\* Longest stream of answer sets handed to decode().
MaxModels == 2

\* ------------------------------------------------------------ input universe
\* Predicates, each of one arity: p/2, q/0, r/1.
Preds == {"p", "q", "r"}

\* Python's string order on the predicate names ("" is no predicate).
PredOrd(pred) ==
    CASE pred = "" -> 0 [] pred = "p" -> 1 [] pred = "q" -> 2 [] pred = "r" -> 3

\* The atoms a raw answer set is made of: p(1,1) p(1,2) p(2,1) q r(1).
AtomUniverse ==
    {<<"p", <<1, 1>>>>, <<"p", <<1, 2>>>>, <<"p", <<2, 1>>>>,
     <<"q", <<>>>>, <<"r", <<1>>>>}

Range(s) == {s[i] : i \in DOMAIN s}

\* Sequences of length n of distinct members of S.
RECURSIVE Arrangements(_, _)
Arrangements(S, n) ==
    IF n = 0 THEN {<<>>}
    ELSE UNION {{Append(s, x) : x \in S \ Range(s)} : s \in Arrangements(S, n - 1)}

\* A raw answer set: distinct atoms, in the order the source lists them.
RawAnswerSets == UNION {Arrangements(AtomUniverse, n) : n \in 0..MaxAtoms}

\* ------------------------------------------------------------ Python values
Tuple(args) == [scalar |-> FALSE, v |-> args]
Scalar(x) == [scalar |-> TRUE, v |-> <<x>>]
EmptyTuple == Tuple(<<>>)

Pair(pred, a) == [form |-> "pair", pred |-> pred, args |-> a]
Atom(pred, a) == [form |-> "Atom", pred |-> pred, args |-> a]
Args(a) == [form |-> "args", pred |-> "", args |-> a]

\* Lexicographic order of two sequences of values.
RECURSIVE LessSeq(_, _)
LessSeq(a, b) ==
    IF a = <<>> THEN b # <<>>
    ELSE IF b = <<>> THEN FALSE
    ELSE IF a[1] # b[1] THEN a[1] < b[1]
    ELSE LessSeq(Tail(a), Tail(b))

\* Python's < on argument representations.  A value and a tuple do not
\* compare in Python; with one arity per predicate no sort meets that case.
LessRep(x, y) ==
    IF x.scalar = y.scalar THEN LessSeq(x.v, y.v) ELSE x.scalar

\* Python's < on (pred, args) pairs, on Atom objects and on bucket members.
LessItem(a, b) ==
    IF a.pred # b.pred THEN PredOrd(a.pred) < PredOrd(b.pred)
    ELSE LessRep(a.args, b.args)

RECURSIVE Insert(_, _)
Insert(x, s) ==
    IF s = <<>> THEN <<x>>
    ELSE IF LessItem(s[1], x) THEN <<s[1]>> \o Insert(x, Tail(s))
    ELSE <<x>> \o s

\* sorted(it): every member of it, duplicates kept, in ascending order.
RECURSIVE SortedSeq(_)
SortedSeq(it) ==
    IF it = <<>> THEN <<>> ELSE Insert(it[1], SortedSeq(Tail(it)))

\* lambda it: tuple(sorted(it))
sorted_tuple(it) == [kind |-> "tuple", elems |-> {}, seq |-> SortedSeq(it)]

\* frozenset(it)
frozenset(it) == [kind |-> "frozenset", elems |-> Range(it), seq |-> <<>>]

\* builder = sorted_tuple if self._sorted else frozenset
BuilderOf(sortedFlag) == IF sortedFlag THEN "sorted_tuple" ELSE "frozenset"

\* builder(it)
builder(b, it) == IF b = "sorted_tuple" THEN sorted_tuple(it) ELSE frozenset(it)

\* The members of a container, and an order in which iterating it lists them.
Members(c) == IF c.kind = "tuple" THEN Range(c.seq) ELSE c.elems

RECURSIVE SetToSeq(_)
SetToSeq(S) ==
    IF S = {} THEN <<>>
    ELSE LET x == CHOOSE y \in S : TRUE IN <<x>> \o SetToSeq(S \ {x})

Iterate(c) == IF c.kind = "tuple" THEN c.seq ELSE SetToSeq(c.elems)

NoContainer == [kind |-> "none", elems |-> {}, seq |-> <<>>]

\* ------------------------------------------------------------ Answers.__iter__
\* Faulty variant of FirstArg: keeps the last argument instead of the first.
FirstArgLast(args) == IF args # <<>> THEN Scalar(args[Len(args)]) ELSE EmptyTuple

\* args[0] if args else ()
FirstArg(args) == IF args # <<>> THEN Scalar(args[1]) ELSE EmptyTuple

\* Lines 52-57: the (pred, args) pairs of one raw answer set, built.
Truncate(raw, fao, b) ==
    builder(b, [i \in DOMAIN raw |->
                  Pair(raw[i][1],
                       IF fao THEN FirstArg(raw[i][2]) ELSE Tuple(raw[i][2]))])

\* Faulty variant of mapping: mapping[pred] = {args} instead of mapping[pred].add(args),
\* so a bucket keeps one member only.
mappingOverwrite(answer_set, pya) ==
    [pred \in {m.pred : m \in Members(answer_set)} |->
        LET m == CHOOSE n \in Members(answer_set) : n.pred = pred
        IN  {IF pya THEN Atom(m.pred, m.args) ELSE Args(m.args)}]

\* Lines 60-64: mapping = defaultdict(set), filled from the built answer set.
mapping(answer_set, pya) ==
    [pred \in {m.pred : m \in Members(answer_set)} |->
        {IF pya THEN Atom(m.pred, m.args) ELSE Args(m.args) :
            m \in {n \in Members(answer_set) : n.pred = pred}}]

\* Lines 65-66: {pred: builder(args) for pred, args in mapping.items()}
Group(answer_set, pya, b) ==
    LET mp == mapping(answer_set, pya)
    IN  [type |-> "dict", top |-> NoContainer,
         map |-> [pred \in DOMAIN mp |-> builder(b, SetToSeq(mp[pred]))]]

\* Line 68: builder(as_pyasp.Atom(*atom) for atom in answer_set)
Wrap(answer_set, b) ==
    LET it == Iterate(answer_set)
    IN  builder(b, [i \in DOMAIN it |-> Atom(it[i].pred, it[i].args)])

TopLevel(c) == [type |-> c.kind, top |-> c, map |-> <<>>]

\* Faulty variant of Transform: the as_pyasp branch tested before the grouping branch,
\* so the atoms are wrapped at the top level and never grouped.
TransformWrapFirst(raw, fao, grp, pya, b) ==
    LET answer_set == Truncate(raw, fao, b)
    IN  IF pya THEN TopLevel(Wrap(answer_set, b))
        ELSE IF grp THEN Group(answer_set, pya, b)
        ELSE TopLevel(answer_set)

\* Lines 52-69: what one pass of the loop body yields for one raw answer set.
Transform(raw, fao, grp, pya, b) ==
    LET answer_set == Truncate(raw, fao, b)
    IN  IF grp THEN Group(answer_set, pya, b)
        ELSE IF pya THEN TopLevel(Wrap(answer_set, b))
        ELSE TopLevel(answer_set)

NoOutput == [type |-> "none", top |-> NoContainer, map |-> <<>>]

\* ------------------------------------------------------------ state
VARIABLES
    source,           \* the iterable handed to __init__ (never changes)
    _answers,         \* iter(answers): the raw answer sets not yet pulled
    _first_arg_only, _group_atoms, _as_pyasp, _sorted,
    generators,       \* the generator objects iter() created
    delivered,        \* history: every answer set yielded so far, in order
    advances,         \* history: number of next() requests so far
    result,           \* what the last next() returned or raised
    decoder,          \* decode(): the decoder class given in decoders=[...]
    models,           \* decode(): the answer sets of the solved program
    current,          \* decode(): index of the answer set being decoded
    atoms,            \* decode(): its atoms not yet drained
    collected,        \* decode(): the arguments collected per parameter
    objects           \* decode(): the objects yielded so far

avars == <<source, _answers, _first_arg_only, _group_atoms, _as_pyasp, _sorted,
           generators, delivered, advances, result>>

dvars == <<decoder, models, current, atoms, collected, objects>>

vars == <<avars, dvars>>

flagvars == <<_first_arg_only, _group_atoms, _as_pyasp, _sorted>>

\* The flag values of the current state.
Config ==
    [first_arg_only |-> _first_arg_only, group_atoms |-> _group_atoms,
     as_pyasp |-> _as_pyasp, sorted |-> _sorted]

\* A generator object: where its body stands and the builder it bound.
\* "created": the body has not run; "suspended": at the yield; "finished".
NewGenerator == [pc |-> "created", builder |-> "unset"]
NoGenerator == [pc |-> "unborn", builder |-> "unset"]

\* The i-th answer set of the solver's output: three answer sets in turn.
SampleSet(i) ==
    CASE i % 3 = 1 -> <<<<"p", <<1, 2>>>>, <<"q", <<>>>>>>
      [] i % 3 = 2 -> <<<<"p", <<2, 1>>>>, <<"p", <<1, 1>>>>>>
      [] i % 3 = 0 -> <<<<"r", <<1>>>>>>

\* The sources of at most MaxSource answer sets.
Sources == {[i \in 1..n |-> SampleSet(i)] : n \in 0..MaxSource}

\* Lines 17-23: __init__.
InitObject ==
    /\ _answers = source
    /\ _first_arg_only = FALSE
    /\ _group_atoms = FALSE
    /\ _as_pyasp = FALSE
    /\ _sorted = FALSE
    /\ generators = [t \in 1..MaxTraversals |-> NoGenerator]
    /\ delivered = <<>>
    /\ advances = 0
    /\ result = [op |-> "init", by |-> 0, signal |-> "none", out |-> NoOutput]

\* No decode() call is under way.
NoDecode ==
    /\ decoder = "none"
    /\ models = <<>>
    /\ current = 1
    /\ atoms = {}
    /\ collected = [concept |-> {}, extent |-> {}, intent |-> {}]
    /\ objects = <<>>

Init ==
    /\ source \in Sources
    /\ InitObject
    /\ NoDecode

\* Lines 26-29.
first_arg_only ==
    /\ _first_arg_only' = TRUE
    /\ UNCHANGED <<source, _answers, _group_atoms, _as_pyasp, _sorted,
                   generators, delivered, advances, result>>
    /\ UNCHANGED dvars

\* Lines 31-34.
by_predicate ==
    /\ _group_atoms' = TRUE
    /\ UNCHANGED <<source, _answers, _first_arg_only, _as_pyasp, _sorted,
                   generators, delivered, advances, result>>
    /\ UNCHANGED dvars

\* Lines 36-39.
as_pyasp ==
    /\ _as_pyasp' = TRUE
    /\ UNCHANGED <<source, _answers, _first_arg_only, _group_atoms, _sorted,
                   generators, delivered, advances, result>>
    /\ UNCHANGED dvars

\* Lines 41-44.
sorted ==
    /\ _sorted' = TRUE
    /\ UNCHANGED <<source, _answers, _first_arg_only, _group_atoms, _as_pyasp,
                   generators, delivered, advances, result>>
    /\ UNCHANGED dvars

\* Line 47: calling the generator function creates a generator object and
\* runs none of its body.
iter(t) ==
    /\ generators[t].pc = "unborn"
    /\ \A u \in 1..(t - 1) : generators[u].pc # "unborn"
    /\ generators' = [generators EXCEPT ![t] = NewGenerator]
    /\ UNCHANGED <<source, _answers, flagvars, delivered, advances, result, dvars>>

\* The builder a generator uses when resumed: bound on line 50 by the first
\* resumption, kept in the generator's frame afterwards.
BoundBuilder(g) == IF g.pc = "created" THEN BuilderOf(_sorted) ELSE g.builder

\* Faulty variant of PullCount: the loop prefetches one answer set more.
PullAhead == 1 + 1

\* Number of raw answer sets one pass of line 51 takes from self._answers.
PullCount == 1

\* Lines 49-69, from one resumption of generator g to its next yield or to
\* its end.  by names the consumer in the history (0: a direct next()).
Resume(g, by, op) ==
    IF g.pc = "finished" \/ _answers = <<>>
    THEN /\ result' = [op |-> op, by |-> by, signal |-> "StopIteration", out |-> NoOutput]
         /\ UNCHANGED <<_answers, delivered>>
    ELSE LET out == Transform(Head(_answers), _first_arg_only, _group_atoms,
                              _as_pyasp, BoundBuilder(g))
         IN  /\ _answers' = SubSeq(_answers, PullCount + 1, Len(_answers))
             /\ delivered' = Append(delivered,
                    [by |-> by, idx |-> Len(source) - Len(_answers) + 1,
                     config |-> Config, out |-> out])
             /\ result' = [op |-> op, by |-> by, signal |-> "value", out |-> out]

\* The generator after that resumption.
Resumed(g) ==
    IF g.pc = "finished" \/ _answers = <<>>
    THEN [pc |-> "finished", builder |-> BoundBuilder(g)]
    ELSE [pc |-> "suspended", builder |-> BoundBuilder(g)]

\* next(it) on a generator iter() returned.
Advance(t) ==
    /\ generators[t].pc # "unborn"
    /\ advances < MaxAdvances
    /\ advances' = advances + 1
    /\ Resume(generators[t], t, "advance")
    /\ generators' = [generators EXCEPT ![t] = Resumed(generators[t])]
    /\ UNCHANGED <<source, flagvars, dvars>>

\* Faulty variant of NextGenerator: __next__ resumes a generator whose builder was
\* bound before any flag was set.
NextGeneratorStale == [pc |-> "suspended", builder |-> "frozenset"]

\* The generator __next__ advances: iter(self), a new one.
NextGenerator == NewGenerator

\* Lines 72-73: next(iter(self)); the fresh generator is dropped afterwards.
next ==
    /\ advances < MaxAdvances
    /\ advances' = advances + 1
    /\ Resume(NextGenerator, 0, "next")
    /\ UNCHANGED <<source, flagvars, generators, dvars>>

SetFlag == first_arg_only \/ by_predicate \/ as_pyasp \/ sorted

Next ==
    \/ SetFlag
    \/ \E t \in 1..MaxTraversals : iter(t)
    \/ \E t \in 1..MaxTraversals : Advance(t)
    \/ next

Spec == Init /\ [][Next]_vars

\* One raw answer set, any flags, pulled with a direct next().
InitTransform ==
    /\ source \in {<<raw>> : raw \in RawAnswerSets}
    /\ InitObject
    /\ NoDecode

NextTransform == SetFlag \/ next

SpecTransform == InitTransform /\ [][NextTransform]_vars

\* ------------------------------------------------------------ decoders
\* Faulty variant of ConceptList: the constructor keeps every extent and intent
\* argument, whatever its id.
ConceptListUnfiltered(concept, extent, intent) ==
    [id |-> concept[1],
     extent |-> {e[2] : e \in extent},
     intent |-> {i[2] : i \in intent}]

\* test_decoder.py lines 26-29: ConceptList.__init__(concept:1, extent:all,
\* intent:all); concept is one atom's arguments, extent and intent are the
\* arguments of all the extent and intent atoms.
ConceptList(concept, extent, intent) ==
    LET id == concept[1]
    IN  [id |-> id,
         extent |-> {e[2] : e \in {x \in extent : x[1] = id}},
         intent |-> {i[2] : i \in {x \in intent : x[1] = id}}]

\* Faulty variant of ConceptGen: the intent is built from the extent atoms.
ConceptGenExtentTwice(extent, intent) ==
    [id |-> 0, extent |-> {e[1] : e \in extent}, intent |-> {e[1] : e \in extent}]

\* test_decoder.py lines 49-52: ConceptGen.__init__(extent:all, intent:all).
ConceptGen(extent, intent) ==
    [id |-> 0, extent |-> {e[1] : e \in extent}, intent |-> {i[1] : i \in intent}]

\* The parameters a decoder's constructor declares, and those annotated 1.
Parameters(d) ==
    IF d = "ConceptList" THEN {"concept", "extent", "intent"} ELSE {"extent", "intent"}

\* ASP_LIST_CONCEPTS-like answer sets: ids 0 and 1, one concept(id) per id
\* present, any extent(id, x) and intent(id, y) of those ids, and possibly
\* an atom no decoder maps.
ListModels ==
    UNION {
      {{<<"concept", <<i>>>> : i \in ids} \cup ext \cup int \cup other :
          ext \in SUBSET {<<"extent", <<i, x>>>> : i \in ids, x \in {"a", "b"}},
          int \in SUBSET {<<"intent", <<i, "c">>>> : i \in ids},
          other \in {{}, {<<"rel", <<0, "c">>>>}}} :
      ids \in SUBSET {0, 1}}

\* ASP_GEN_CONCEPTS-like answer sets: extent(x) and intent(y) atoms, both
\* populated, and possibly an atom no decoder maps.
GenModels ==
    {ext \cup int \cup other :
        ext \in (SUBSET {<<"extent", <<"a">>>>, <<"extent", <<"b">>>>}) \ {{}},
        int \in (SUBSET {<<"intent", <<"c">>>>, <<"intent", <<"d">>>>}) \ {{}},
        other \in {{}, {<<"rel", <<"a", "c">>>>}}}

RECURSIVE Streams(_, _)
Streams(S, n) ==
    IF n = 0 THEN {<<>>}
    ELSE {<<>>} \cup {<<m>> \o s : m \in S, s \in Streams(S, n - 1)}

\* decode(inline=..., decoders=[D]) is called: nothing is decoded yet.
InitDecode ==
    /\ source = <<>>
    /\ InitObject
    /\ \/ decoder = "ConceptList" /\ models \in {<<m>> : m \in ListModels}
       \/ decoder = "ConceptGen" /\ models \in Streams(GenModels, MaxModels) \ {<<>>}
    /\ current = 1
    /\ atoms = models[1]
    /\ collected = [concept |-> {}, extent |-> {}, intent |-> {}]
    /\ objects = <<>>

\* One atom of the current answer set is read: its arguments are collected
\* under its predicate when the decoder declares it, and dropped otherwise.
Drain ==
    /\ current <= Len(models)
    /\ \E a \in atoms :
        /\ atoms' = atoms \ {a}
        /\ collected' =
              IF a[1] \in Parameters(decoder)
              THEN [collected EXCEPT ![a[1]] = @ \cup {a[2]}]
              ELSE collected
    /\ UNCHANGED <<decoder, models, current, objects, avars>>

\* The objects built from what was collected: one per atom of a parameter
\* annotated 1, each given everything collected for the parameters
\* annotated all; one object when no parameter is annotated 1.
Build ==
    IF decoder = "ConceptList"
    THEN LET cs == SetToSeq(collected.concept)
         IN  [k \in DOMAIN cs |->
                 ConceptList(cs[k], collected.extent, collected.intent)]
    ELSE <<ConceptGen(collected.extent, collected.intent)>>

\* The current answer set is drained: its objects are built and yielded,
\* and decoding moves to the next answer set with nothing collected.
Construct ==
    /\ current <= Len(models)
    /\ atoms = {}
    /\ objects' = objects \o [k \in DOMAIN Build |-> [model |-> current, obj |-> Build[k]]]
    /\ current' = current + 1
    /\ atoms' = IF current < Len(models) THEN models[current + 1] ELSE {}
    /\ collected' = [concept |-> {}, extent |-> {}, intent |-> {}]
    /\ UNCHANGED <<decoder, models, avars>>

NextDecode == Drain \/ Construct

SpecDecode == InitDecode /\ [][NextDecode]_vars

\* ------------------------------------------------------------ history
\* Number of raw answer sets pulled from the underlying source so far.
Pulled == Len(source) - Len(_answers)

\* What generator t (0: the direct next() calls) was handed, in order.
YieldedBy(t) == SelectSeq(delivered, LAMBDA e : e.by = t)

\* The transformation of raw under the flag values c.
TransformUnder(raw, c) ==
    Transform(raw, c.first_arg_only, c.group_atoms, c.as_pyasp, BuilderOf(c.sorted))

\* The argument representation lines 52-57 give atom a under flags c.
RepOf(a, c) == IF c.first_arg_only THEN FirstArg(a[2]) ELSE Tuple(a[2])

\* The atoms of raw whose predicate is pred.
AtomsOf(raw, pred) == {a \in Range(raw) : a[1] = pred}

\* ------------------------------------------------------------ C1
\* C1: every answer set a traversal yields is transformed with the flag
\* values that held when the traversal started (here: when its body began
\* to run, at its first advance); flags set later change nothing it yields.
C1_FlagsFixedAtStart ==
    \A t \in 1..MaxTraversals :
        LET mine == YieldedBy(t)
        IN  \A k \in DOMAIN mine :
                mine[k].out = TransformUnder(source[mine[k].idx], mine[1].config)

\* ------------------------------------------------------------ C2
\* The first element a traversal started now would return.
FreshFirst ==
    IF _answers = <<>>
    THEN [signal |-> "StopIteration", out |-> NoOutput]
    ELSE [signal |-> "value", out |-> TransformUnder(Head(_answers), Config)]

C2_Order ==
    /\ Len(delivered) = Pulled
    /\ _answers = SubSeq(source, Pulled + 1, Len(source))
    /\ \A k \in DOMAIN delivered :
        /\ delivered[k].idx = k
        /\ \E b \in {"sorted_tuple", "frozenset"} :
            delivered[k].out =
                LET c == delivered[k].config
                IN  Transform(source[k], c.first_arg_only, c.group_atoms, c.as_pyasp, b)

C2_Step ==
    /\ (_answers = <<>> /\ advances' # advances)
          => delivered' = delivered /\ result'.signal = "StopIteration"
    /\ (advances' # advances /\ result'.op = "next")
          => /\ result'.signal = FreshFirst.signal
             /\ result'.out = FreshFirst.out

\* C2: over any sequence of iter(), advances and direct next() calls, every
\* raw answer set is pulled at most once and the answer sets are delivered in
\* source order with none skipped; once the source is exhausted nothing more
\* is yielded and next() signals exhaustion; a direct next() returns what the
\* first element of a freshly started traversal would return.
C2_SinglePass == []C2_Order /\ [][C2_Step]_vars

\* A generator and a direct next() shared the source, which is now exhausted,
\* and a further direct next() raised StopIteration.
C2_Witness ==
    /\ Len(delivered) = 2
    /\ delivered[1].by = 1
    /\ delivered[2].by = 0
    /\ _answers = <<>>
    /\ result.op = "next"
    /\ result.signal = "StopIteration"

\* ------------------------------------------------------------ C3
\* C3 as stated: in every reachable state the number of raw answer sets
\* pulled equals the number of advances requested.
C3_PulledEqualsAdvances == Pulled = advances

\* C3 amended: the source is never pulled ahead of the requests: the number
\* pulled equals the number of answer sets yielded and never exceeds the
\* number of advances requested, the two being equal as long as the source
\* is not exhausted; a started but never advanced traversal pulled nothing.
C3_DemandDriven ==
    /\ Pulled = Len(delivered)
    /\ Pulled <= advances
    /\ _answers # <<>> => Pulled = advances
    /\ \A t \in 1..MaxTraversals :
        generators[t].pc = "created" => YieldedBy(t) = <<>>

\* One advance happened and pulled one answer set while another traversal,
\* started and not advanced, pulled nothing.
C3_Witness ==
    /\ advances = 1
    /\ Pulled = 1
    /\ _answers # <<>>
    /\ generators[1].pc = "suspended"
    /\ generators[2].pc = "created"

\* ------------------------------------------------------------ C4
\* C4: what a traversal yields is what it would yield alone, with the flag
\* values of its start: neither the advances of another traversal nor the
\* flags set meanwhile change its k-th answer set.
C4_Independent ==
    \A t \in 1..MaxTraversals :
        LET mine == YieldedBy(t)
        IN  \A k \in DOMAIN mine :
                /\ mine[k].idx = k
                /\ mine[k].out = TransformUnder(source[k], mine[1].config)

\* ------------------------------------------------------------ C5
\* C5: with by_predicate set the yielded mapping has as keys exactly the
\* predicates occurring in the raw answer set, no bucket is empty, and
\* (the arguments being neither truncated nor wrapped) each key maps to
\* exactly the argument tuples of the atoms of that predicate.
C5_GroupingComplete ==
    \A k \in DOMAIN delivered :
        LET e == delivered[k]
            raw == source[e.idx]
        IN  e.config.group_atoms =>
              /\ e.out.type = "dict"
              /\ DOMAIN e.out.map = {a[1] : a \in Range(raw)}
              /\ \A pred \in DOMAIN e.out.map :
                    /\ Members(e.out.map[pred]) # {}
                    /\ (~e.config.first_arg_only /\ ~e.config.as_pyasp) =>
                         Members(e.out.map[pred]) =
                            {Args(Tuple(a[2])) : a \in AtomsOf(raw, pred)}

\* A grouped answer set with two atoms of one predicate and one of another.
C5_Witness ==
    \E k \in DOMAIN delivered :
        LET e == delivered[k]
        IN  /\ e.config.group_atoms
            /\ ~e.config.first_arg_only
            /\ ~e.config.as_pyasp
            /\ Cardinality(AtomsOf(source[e.idx], "p")) = 2
            /\ AtomsOf(source[e.idx], "q") # {}
            /\ AtomsOf(source[e.idx], "r") = {}

\* ------------------------------------------------------------ C6
\* Whether the yielded value shows an atom of predicate pred with the
\* argument representation rep.
Shows(out, pred, rep) ==
    IF out.type = "dict"
    THEN /\ pred \in DOMAIN out.map
         /\ \/ Args(rep) \in Members(out.map[pred])
            \/ Atom(pred, rep) \in Members(out.map[pred])
    ELSE \/ Pair(pred, rep) \in Members(out.top)
         \/ Atom(pred, rep) \in Members(out.top)

\* C6: with first_arg_only set, an atom with arguments is yielded as
\* (pred, first argument) and an atom without arguments as (pred, ()); the
\* empty marker is shown for a predicate exactly when the answer set holds
\* that predicate without arguments.
C6_FirstArgOnly ==
    \A k \in DOMAIN delivered :
        LET e == delivered[k]
            raw == source[e.idx]
        IN  e.config.first_arg_only =>
              /\ (~e.config.group_atoms /\ ~e.config.as_pyasp) =>
                    Members(e.out.top) =
                        {Pair(a[1], IF a[2] # <<>> THEN Scalar(a[2][1]) ELSE EmptyTuple) :
                            a \in Range(raw)}
              /\ \A a \in Range(raw) :
                    a[2] # <<>> => Shows(e.out, a[1], Scalar(a[2][1]))
              /\ \A pred \in Preds :
                    Shows(e.out, pred, EmptyTuple) <=> <<pred, <<>>>> \in Range(raw)

\* An answer set with p(1,2) and q, truncated.
C6_Witness ==
    \E k \in DOMAIN delivered :
        LET e == delivered[k]
        IN  /\ e.config.first_arg_only
            /\ <<"p", <<1, 2>>>> \in Range(source[e.idx])
            /\ <<"q", <<>>>> \in Range(source[e.idx])
            /\ Shows(e.out, "q", EmptyTuple)

\* ------------------------------------------------------------ C7
\* The members the same configuration yields without sorted, for the
\* top level, or for pred's bucket under grouping.
UnsortedMembers(raw, cfg, pred) ==
    LET out == Transform(raw, cfg.first_arg_only, cfg.group_atoms, cfg.as_pyasp,
                         "frozenset")
    IN  IF out.type = "dict" THEN Members(out.map[pred]) ELSE Members(out.top)

StrictlyAscending(s) ==
    \A i, j \in DOMAIN s : i < j => LessItem(s[i], s[j])

SortedAsTheSet(c, S) ==
    /\ c.kind = "tuple"
    /\ StrictlyAscending(c.seq)
    /\ Range(c.seq) = S

\* C7: with sorted set, the yielded container (the top level, or each bucket
\* under grouping) is an ascending sequence holding exactly the members the
\* same configuration yields as a set without sorted, each exactly once, for
\* every combination of the other flags.
C7_SortedIsTheSetInOrder ==
    \A k \in DOMAIN delivered :
        LET e == delivered[k]
            raw == source[e.idx]
        IN  e.config.sorted =>
              IF e.out.type = "dict"
              THEN \A pred \in DOMAIN e.out.map :
                      SortedAsTheSet(e.out.map[pred], UnsortedMembers(raw, e.config, pred))
              ELSE SortedAsTheSet(e.out.top, UnsortedMembers(raw, e.config, ""))

\* ------------------------------------------------------------ C8
\* C8: with as_pyasp and by_predicate, the keys are the bare predicate names
\* and each bucket holds one Atom(pred, args) per atom of that predicate,
\* nothing being wrapped at the top level; with as_pyasp alone the container
\* holds one Atom(pred, args) per pair and no bare pair.
C8_WrappingPlacement ==
    \A k \in DOMAIN delivered :
        LET e == delivered[k]
            raw == source[e.idx]
        IN  e.config.as_pyasp =>
              IF e.config.group_atoms
              THEN /\ e.out.type = "dict"
                   /\ e.out.top = NoContainer
                   /\ DOMAIN e.out.map = {a[1] : a \in Range(raw)}
                   /\ \A pred \in DOMAIN e.out.map :
                        Members(e.out.map[pred]) =
                            {Atom(pred, RepOf(a, e.config)) : a \in AtomsOf(raw, pred)}
              ELSE /\ e.out.type # "dict"
                   /\ Members(e.out.top) =
                        {Atom(a[1], RepOf(a, e.config)) : a \in Range(raw)}
                   /\ \A m \in Members(e.out.top) : m.form = "Atom"

\* A grouped and wrapped answer set with two atoms of one predicate and one
\* atom of another.
C8_Witness ==
    \E k \in DOMAIN delivered :
        LET e == delivered[k]
        IN  /\ e.config.as_pyasp
            /\ e.config.group_atoms
            /\ Cardinality(AtomsOf(source[e.idx], "p")) = 2
            /\ AtomsOf(source[e.idx], "q") # {}

\* ------------------------------------------------------------ C9
\* The objects decoded from the m-th answer set.
ObjectsOf(m) == SelectSeq(objects, LAMBDA o : o.model = m)

\* The second arguments of the atoms pred(i, _) of answer set m.
GroupArgs(m, pred, i) ==
    {a[2][2] : a \in {x \in models[m] : x[1] = pred /\ x[2][1] = i}}

\* C9: an answer set of several id groups, each with one concept(id) and any
\* extent(id, x) and intent(id, y), decodes to exactly one object per id, and
\* the object of id i carries exactly the extent and intent arguments of the
\* atoms whose first argument is i.
C9_OneObjectPerId ==
    decoder = "ConceptList" =>
        \A m \in 1..(current - 1) :
            LET objs == ObjectsOf(m)
                ids == {a[2][1] : a \in {x \in models[m] : x[1] = "concept"}}
            IN  /\ Len(objs) = Cardinality(ids)
                /\ \A i \in ids :
                    \E k \in DOMAIN objs :
                        /\ objs[k].obj.id = i
                        /\ objs[k].obj.extent = GroupArgs(m, "extent", i)
                        /\ objs[k].obj.intent = GroupArgs(m, "intent", i)

\* Two groups with different extents and intents were decoded.
C9_Witness ==
    /\ decoder = "ConceptList"
    /\ current = 2
    /\ Len(objects) = 2
    /\ GroupArgs(1, "extent", 0) = {"a", "b"}
    /\ GroupArgs(1, "extent", 1) = {"b"}
    /\ GroupArgs(1, "intent", 0) = {}
    /\ GroupArgs(1, "intent", 1) = {"c"}

\* ------------------------------------------------------------ C10
\* The arguments of the atoms pred(_) of answer set m.
AllArgs(m, pred) == {a[2][1] : a \in {x \in models[m] : x[1] = pred}}

\* C10: a decoder with only all-arity parameters yields exactly one object
\* per answer set, built from all the extent and all the intent atoms of that
\* answer set and of no other, and only once that answer set is drained
\* (the answer set being decoded has no object yet).
C10_OneObjectPerAnswerSet ==
    decoder = "ConceptGen" =>
        /\ Len(objects) = current - 1
        /\ \A k \in DOMAIN objects :
            /\ objects[k].model = k
            /\ objects[k].obj.extent = AllArgs(k, "extent")
            /\ objects[k].obj.intent = AllArgs(k, "intent")

\* Two different answer sets were decoded, one object each.
C10_Witness ==
    /\ decoder = "ConceptGen"
    /\ current = 3
    /\ Len(objects) = 2
    /\ AllArgs(1, "extent") = {"a", "b"}
    /\ AllArgs(2, "extent") = {"b"}
    /\ AllArgs(1, "intent") # AllArgs(2, "intent")

====
